---- MODULE Spec2Model ----
(***************************************************************************)
(* State-machine model of the stat-card endpoint (src/unnamed/part_000):   *)
(* the module-level cache and pendingRequests maps, the image cache, the   *)
(* two memoised fetchers getUserData / getGameData, the renderer           *)
(* createFullCanvas and the HTTP handler.  The runtime is a single         *)
(* threaded event loop: one action is one run-to-completion turn, from a   *)
(* resumed await (or a new request) to the next suspension on I/O.         *)
(***************************************************************************)
EXTENDS Integers, Sequences, FiniteSets, TLC

VARIABLES
    now,              \* Date.now(), in milliseconds
    ticks,            \* number of clock advances so far (bounded)
    apiKeySet,        \* whether process.env.STEAM_API_KEY is set in this deployment
    fontsLoaded,      \* module flag of ensureFontsLoaded
    cache,            \* Map: key -> value
    pendingRequests,  \* Map: key -> promise (index into producers)
    imageCache,       \* Map: key -> {image, timestamp}
    producers,        \* the async bodies started by getUserData / getGameData
    requests,         \* handler invocations
    written,          \* history: key -> who wrote the entry now in cache, and when
    resolveCalls,     \* history: uid -> number of resolveVanityUrl(uid) invocations
    crossReads,       \* history: reads of an entry written for another namespace/input
    staleUses,        \* history: kinds of cached values used at or past their TTL
    themeIn, themeOut,   \* colour resolution of createFullCanvas, as a pure function
    nameIn, nameOut,     \* user-name truncation of createFullCanvas, as a pure function
    barIn, barOut        \* progress line and bar of createFullCanvas, as a pure function

vars == <<now, ticks, apiKeySet, fontsLoaded, cache, pendingRequests, imageCache,
          producers, requests, written, resolveCalls, crossReads, staleUses,
          themeIn, themeOut, nameIn, nameOut, barIn, barOut>>

serverVars == <<now, ticks, apiKeySet, fontsLoaded, cache, pendingRequests, imageCache,
                producers, requests, written, resolveCalls, crossReads, staleUses>>

-----------------------------------------------------------------------------
(* Bounds of the model *)

MaxRequests == 1
MaxCalls == 2
MaxTicks == 1
MaxNoKeyCalls == 3
MaxNameLen == 11
MaxGames == 12
ExtraGames == 1

-----------------------------------------------------------------------------
(* Program constants *)

CACHE_TTL == 3600000
AVATAR_CACHE_TTL == 86400000
STEAMID_CACHE_TTL == 604800000
GAME_DATA_CACHE_TTL == 21600000
maxGameIdsPerCall == 200

\* JavaScript undefined, where a number is expected
Undefined == -1
\* JavaScript null, where a string is expected
Null == "null"

\* Request inputs: req.query.uid and req.query.country_code
Uids == {"a", "meta_a"}
CountryCodes == {"US", "DE"}
Queries == {<<"a", "US">>, <<"a", "DE">>, <<"meta_a", "US">>}

\* Time elapsed before a request arrives: none, or a full TTL
Elapsed == {0, CACHE_TTL, STEAMID_CACHE_TTL}

-----------------------------------------------------------------------------
(* Cache keys, as the template literals build them *)

UserKey(uid) == "user_" \o uid
SteamIdKey(uid) == "steamid_" \o uid
SteamIdMetaKey(uid) == "steamid_meta_" \o uid
GamesKey(uid, cc) == "games_" \o uid \o "_" \o cc
ImgKey(imagePath) == "img_" \o imagePath

\* JavaScript values held by the maps
Str(s) == [type |-> "string", str |-> s]
Meta(t) == [type |-> "object", timestamp |-> t]
Entry(d, t) == [type |-> "object", data |-> d, timestamp |-> t]
TimestampOf(v) == IF "timestamp" \in DOMAIN v THEN v.timestamp ELSE Undefined

Has(m, k) == k \in DOMAIN m
Set(m, k, v) == (k :> v) @@ m
Delete(m, k) == [x \in DOMAIN m \ {k} |-> m[x]]

\* Date.now() - timestamp < ttl, in the world W (NaN < ttl is false)
isCacheValid(W, timestamp, ttl) == timestamp # Undefined /\ W.now - timestamp < ttl

-----------------------------------------------------------------------------
(* Upstream collaborators.  Whether a call succeeds is chosen by the action  *)
(* that resumes the caller; what a successful call returns is fixed here.    *)

\* resolveVanityUrl(uid), when it resolves
ResolvedId(uid) == Str("id_" \o uid)

\* sapi.getUserSummary(steamId), when it resolves
UserSummary(steamId) ==
    [nickname |-> "nick_" \o steamId.str,
     visible |-> TRUE,
     avatar |-> "https://avatars/" \o steamId.str,
     lastLogOffTimestamp |-> 1700000000,
     createdTimestamp |-> 1500000000,
     countryCode |-> "US",
     stateCode |-> "CA"]

\* sidr.steamID64ToFullInfo(steamId): the resolved value, or {} after a rejection
SidrSummary(ok) ==
    IF ok THEN [onlineState |-> <<"online">>, location |-> <<"Berlin">>]
    ELSE [none |-> TRUE]

\* The SDK calls reject an id that is not a string
IsString(v) == v.type = "string"

\* sapi.getUserOwnedGames: item i of the returned list
OwnedGame(i) == [game |-> [id |-> i], minutes |-> (i % 3) * 90]

\* The library sizes the upstream may report
LibSizes == {0, maxGameIdsPerCall + ExtraGames}

\* store appdetails entry of app i: no price_overview, or {initial, final}
PriceOverview(i) ==
    CASE i % 4 = 0 -> [none |-> TRUE]
      [] i % 4 = 1 -> [initial |-> 1999, final |-> 999]
      [] i % 4 = 2 -> [initial |-> 0, final |-> 0]
      [] OTHER     -> [initial |-> 500, final |-> 500]

-----------------------------------------------------------------------------
(* The part of the state the fetchers act on, threaded through one turn *)

World ==
    [now |-> now, cache |-> cache, written |-> written, pendingRequests |-> pendingRequests,
     producers |-> producers, resolveCalls |-> resolveCalls,
     crossReads |-> crossReads, staleUses |-> staleUses]

Who(ns, uid, cc) == [ns |-> ns, uid |-> uid, cc |-> cc]

\* cache.set(key, v), with the history of who wrote it and when
Put(W, key, v, who) ==
    [W EXCEPT !.cache = Set(@, key, v),
              !.written = Set(@, key, [who |-> who, at |-> W.now])]

\* cache.get(key) by `who`: history of reads that hit another writer's entry
NoteRead(W, key, who) ==
    IF Has(W.cache, key) /\ W.written[key].who # who
    THEN [W EXCEPT !.crossReads = @ \cup {[key |-> key, reader |-> who.ns,
                                            writer |-> W.written[key].who.ns]}]
    ELSE W

\* history: a cached value of `kind`, inserted at `at`, is used now
NoteUse(W, kind, at, ttl) ==
    IF W.now - at < ttl THEN W ELSE [W EXCEPT !.staleUses = @ \cup {kind}]

NoVal == [type |-> "undefined"]
NoData == [none |-> TRUE]
IsError(d) == "error" \in DOMAIN d

NewProducer(kind, key, uid, cc) ==
    [kind |-> kind, key |-> key, uid |-> uid, cc |-> cc, pc |-> "start",
     steamId |-> NoVal, result |-> NoData, cause |-> "",
     userOk |-> FALSE, sidrOk |-> FALSE, priced |-> FALSE,
     totalGames |-> 0, playedCount |-> 0, unplayedCount |-> 0, totalPlaytime |-> 0,
     chunks |-> {}, fetched |-> {}, nPrices |-> 0, totalInitial |-> 0, totalFinal |-> 0]

\* (userOk, sidrOk, priced, fetched: history of how the upstream calls settled,
\* written by the actions that settle them)

\* catch (e) { return {error} } finally { pendingRequests.delete(cacheKey) }
\* (cause: history of which step threw)
Fail(W, p, marker, cause) ==
    [W EXCEPT !.producers[p].pc = "done",
              !.producers[p].result = [error |-> marker],
              !.producers[p].cause = cause,
              !.pendingRequests = Delete(@, W.producers[p].key)]

\* return value; finally { pendingRequests.delete(cacheKey) }
Succeed(W, p, value) ==
    [W EXCEPT !.producers[p].pc = "done",
              !.producers[p].result = value,
              !.pendingRequests = Delete(@, W.producers[p].key)]

\* new SteamAPI(process.env.STEAM_API_KEY) throws when no key is configured
SteamAPIThrows == ~apiKeySet

-----------------------------------------------------------------------------
(* getUserData *)

\* lines 57-63: construct the client, start both lookups, suspend on allSettled
UserFetch(W, p) ==
    IF SteamAPIThrows THEN Fail(W, p, "no user", "client")
    ELSE [W EXCEPT !.producers[p].pc = "summary"]

\* line 51: whether the identifier must be resolved again
UserNeedsResolve(W, uid) ==
    \/ ~Has(W.cache, SteamIdKey(uid))
    \/ ~Has(W.cache, SteamIdMetaKey(uid))
    \/ ~isCacheValid(W, TimestampOf(W.cache[SteamIdMetaKey(uid)]), STEAMID_CACHE_TTL)

\* lines 46-56: the body of the async function up to its first suspension
UserBody(W, p) ==
    LET uid == W.producers[p].uid
        W1 == NoteRead(NoteRead(W, SteamIdKey(uid), Who("steamid", uid, "")),
                       SteamIdMetaKey(uid), Who("steamid_meta", uid, ""))
    IN  IF UserNeedsResolve(W, uid)
        THEN [W1 EXCEPT !.producers[p].pc = "resolve",
                        !.resolveCalls[uid] = @ + 1]
        ELSE LET W2 == NoteUse(W1, "steamid", W.written[SteamIdKey(uid)].at,
                               STEAMID_CACHE_TTL)
             IN  UserFetch([W2 EXCEPT !.producers[p].steamId = W.cache[SteamIdKey(uid)]], p)

\* lines 37, 42: the two early returns
UserCacheHit(W, uid) ==
    /\ Has(W.cache, UserKey(uid))
    /\ isCacheValid(W, TimestampOf(W.cache[UserKey(uid)]), CACHE_TTL)

\* Variant without the check of line 42: a call never joins a fetch in flight
NeverPendingHit(W, uid) == FALSE

UserPendingHit(W, uid) == Has(W.pendingRequests, UserKey(uid))

\* A caller's handle on a result: the cached data, or the shared promise
Direct(d) == [promise |-> 0, value |-> d]
Promise(p) == [promise |-> p, value |-> NoData]

\* getUserData(uid), run to its return: the new world and what it returns
getUserData(W, uid) ==
    LET key == UserKey(uid)
        W0 == NoteRead(W, key, Who("user", uid, ""))
        p == Len(W.producers) + 1
    IN  IF UserCacheHit(W, uid)
        THEN [W |-> NoteUse(W0, "profile", W.cache[key].timestamp, CACHE_TTL),
              ret |-> Direct(W.cache[key].data)]
        ELSE IF UserPendingHit(W, uid)
        THEN [W |-> W0, ret |-> Promise(W.pendingRequests[key])]
        ELSE LET W1 == [W0 EXCEPT !.producers = Append(@, NewProducer("user", key, uid, ""))]
                 W2 == UserBody(W1, p)
             IN  [W |-> [W2 EXCEPT !.pendingRequests = Set(@, key, p)],
                  ret |-> Promise(p)]

\* lines 65-88: after Promise.allSettled
UserData(steamId, userSummary, sidrSummary) ==
    [steamId |-> steamId.str,
     personaName |-> userSummary.nickname,
     visible |-> userSummary.visible,
     avatar |-> userSummary.avatar,
     lastLogOff |-> userSummary.lastLogOffTimestamp,
     createdAt |-> userSummary.createdTimestamp,
     countryCode |-> userSummary.countryCode,
     stateCode |-> userSummary.stateCode,
     onlineState |-> IF "onlineState" \in DOMAIN sidrSummary
                     THEN sidrSummary.onlineState[1] ELSE Null,
     location |-> IF "location" \in DOMAIN sidrSummary
                  THEN sidrSummary.location[1] ELSE "Unknown"]

UserSettled(W, p, userOk, sidrOk) ==
    LET pr == W.producers[p]
    IN  IF ~userOk THEN Fail(W, p, "no user", "summary")
        ELSE LET userData == UserData(pr.steamId, UserSummary(pr.steamId), SidrSummary(sidrOk))
             IN  Succeed(Put(W, pr.key, Entry(userData, W.now), Who("user", pr.uid, "")),
                         p, userData)

\* lines 52-55 after the await: store the id and its meta entry, then go on
UserResolved(W, p, ok) ==
    LET pr == W.producers[p]
    IN  IF ~ok THEN Fail(W, p, "no user", "resolve")
        ELSE LET W1 == Put(W, SteamIdKey(pr.uid), ResolvedId(pr.uid), Who("steamid", pr.uid, ""))
                 W2 == Put(W1, SteamIdMetaKey(pr.uid), Meta(W.now), Who("steamid_meta", pr.uid, ""))
             IN  UserFetch([W2 EXCEPT !.producers[p].steamId = ResolvedId(pr.uid)], p)

-----------------------------------------------------------------------------
(* getGameData *)

\* lines 132-145: the pass over userGames, items lo..hi (the totals are sums, so
\* the range is visited in halves to keep the evaluation shallow)
RECURSIVE CountGames(_, _)
CountGames(lo, hi) ==
    IF lo > hi
    THEN [playedCount |-> 0, nPlaytime |-> 0, totalPlaytime |-> 0, unplayedCount |-> 0]
    ELSE IF lo = hi
    THEN LET item == OwnedGame(lo)
             played == item.minutes > 0
         IN  [playedCount |-> IF played THEN 1 ELSE 0,
              nPlaytime |-> IF played THEN 1 ELSE 0,
              totalPlaytime |-> IF played THEN item.minutes ELSE 0,
              unplayedCount |-> IF item.minutes = 0 THEN 1 ELSE 0]
    ELSE LET mid == (lo + hi) \div 2
             a == CountGames(lo, mid)
             b == CountGames(mid + 1, hi)
         IN  [playedCount |-> a.playedCount + b.playedCount,
              nPlaytime |-> a.nPlaytime + b.nPlaytime,
              totalPlaytime |-> a.totalPlaytime + b.totalPlaytime,
              unplayedCount |-> a.unplayedCount + b.unplayedCount]

\* lines 148-152: gameIds.slice(i, i + maxGameIdsPerCall), as the id range of chunk c
NumChunks(n) == (n + maxGameIdsPerCall - 1) \div maxGameIdsPerCall
ChunkFirst(c) == (c - 1) * maxGameIdsPerCall + 1
ChunkLast(c, n) == IF c * maxGameIdsPerCall < n THEN c * maxGameIdsPerCall ELSE n

\* lines 169-180: the loop over one chunk's response, apps lo..hi: what it adds
\* to prices, totalInitial and totalFinal
RECURSIVE PriceLoop(_, _)
PriceLoop(lo, hi) ==
    IF lo > hi THEN [nPrices |-> 0, totalInitial |-> 0, totalFinal |-> 0]
    ELSE IF lo = hi
    THEN LET po == PriceOverview(lo)
         IN  IF "initial" \in DOMAIN po /\ po.initial > 0
             THEN [nPrices |-> 1, totalInitial |-> po.initial, totalFinal |-> po.final]
             ELSE [nPrices |-> 0, totalInitial |-> 0, totalFinal |-> 0]
    ELSE LET mid == (lo + hi) \div 2
             a == PriceLoop(lo, mid)
             b == PriceLoop(mid + 1, hi)
         IN  [nPrices |-> a.nPrices + b.nPrices,
              totalInitial |-> a.totalInitial + b.totalInitial,
              totalFinal |-> a.totalFinal + b.totalFinal]

\* The two loops, tabulated once for the library sizes that occur
OwnedCounts == [n \in LibSizes |-> CountGames(1, n)]
ChunkPrices ==
    [n \in LibSizes |-> [c \in 1 .. NumChunks(n) |->
        PriceLoop(ChunkFirst(c), ChunkLast(c, n))]]

\* Intl.NumberFormat('en-US', {style: 'currency', currency: 'USD'}).format(cents / 100)
FormatUSD(cents) == [sign |-> "$", dollars |-> cents \div 100, cents |-> cents % 100]

\* getAverage of '@/utils/utils', on the sum and the length of the list
getAverage(sum, n) == (2 * sum + n) \div (2 * n)
\* minutesToHoursCompact, minutesToHoursPrecise of '@/utils/utils'
minutesToHoursCompact(minutes) == minutes \div 60
minutesToHoursPrecise(minutes) == [hours |-> minutes \div 60, tenths |-> ((minutes % 60) * 10) \div 60]

\* lines 187-199
GameData(pr) ==
    [totals |->
        [totalInitialFormatted |-> FormatUSD(pr.totalInitial),
         totalFinalFormatted |-> FormatUSD(pr.totalFinal),
         averageGamePrice |-> IF pr.nPrices > 0
                              THEN FormatUSD(getAverage(pr.totalInitial, pr.nPrices))
                              ELSE FormatUSD(0),
         totalPlaytimeHours |-> minutesToHoursCompact(pr.totalPlaytime),
         averagePlaytime |-> IF pr.playedCount > 0
                             THEN minutesToHoursPrecise(getAverage(pr.totalPlaytime, pr.playedCount))
                             ELSE minutesToHoursPrecise(0),
         totalGames |-> pr.totalGames],
     playCount |->
        [playedCount |-> pr.playedCount,
         unplayedCount |-> pr.unplayedCount,
         totalPlaytime |-> pr.totalPlaytime]]

\* lines 187-204: after Promise.allSettled over the chunks
GamesFinish(W, p) ==
    LET pr == W.producers[p]
        gameData == GameData(pr)
    IN  Succeed(Put(W, pr.key, Entry(gameData, W.now), Who("games", pr.uid, pr.cc)),
                p, gameData)

\* lines 122-129: construct the client, request the owned games, suspend
GamesFetch(W, p) ==
    IF SteamAPIThrows THEN Fail(W, p, "private games", "client")
    ELSE [W EXCEPT !.producers[p].pc = "owned"]

\* line 117: whether the identifier must be resolved
GamesNeedsResolve(W, uid) == ~Has(W.cache, SteamIdKey(uid))

\* lines 114-121: the body of the async function up to its first suspension
GamesBody(W, p) ==
    LET uid == W.producers[p].uid
        W1 == NoteRead(W, SteamIdKey(uid), Who("steamid", uid, ""))
    IN  IF GamesNeedsResolve(W, uid)
        THEN [W1 EXCEPT !.producers[p].pc = "resolve",
                        !.resolveCalls[uid] = @ + 1]
        ELSE LET W2 == NoteUse(W1, "steamid", W.written[SteamIdKey(uid)].at,
                               STEAMID_CACHE_TTL)
             IN  GamesFetch([W2 EXCEPT !.producers[p].steamId = W.cache[SteamIdKey(uid)]], p)

\* lines 105, 110: the two early returns
GamesCacheHit(W, uid, cc) ==
    /\ Has(W.cache, GamesKey(uid, cc))
    /\ isCacheValid(W, TimestampOf(W.cache[GamesKey(uid, cc)]), GAME_DATA_CACHE_TTL)

GamesPendingHit(W, uid, cc) == Has(W.pendingRequests, GamesKey(uid, cc))

\* getGameData(uid, countryCode), run to its return
getGameData(W, uid, cc) ==
    LET key == GamesKey(uid, cc)
        W0 == NoteRead(W, key, Who("games", uid, cc))
        p == Len(W.producers) + 1
    IN  IF GamesCacheHit(W, uid, cc)
        THEN [W |-> NoteUse(W0, "totals", W.cache[key].timestamp, GAME_DATA_CACHE_TTL),
              ret |-> Direct(W.cache[key].data)]
        ELSE IF GamesPendingHit(W, uid, cc)
        THEN [W |-> W0, ret |-> Promise(W.pendingRequests[key])]
        ELSE LET W1 == [W0 EXCEPT !.producers = Append(@, NewProducer("games", key, uid, cc))]
                 W2 == GamesBody(W1, p)
             IN  [W |-> [W2 EXCEPT !.pendingRequests = Set(@, key, p)],
                  ret |-> Promise(p)]

\* lines 118-120 after the await: store the id (no meta entry), then go on
GamesResolved(W, p, ok) ==
    LET pr == W.producers[p]
    IN  IF ~ok THEN Fail(W, p, "private games", "resolve")
        ELSE LET W1 == Put(W, SteamIdKey(pr.uid), ResolvedId(pr.uid), Who("steamid", pr.uid, ""))
             IN  GamesFetch([W1 EXCEPT !.producers[p].steamId = ResolvedId(pr.uid)], p)

\* lines 124-159: the owned games arrived (n of them), or the call was rejected
GamesOwned(W, p, ok, n) ==
    IF ~ok THEN Fail(W, p, "private games", "owned")
    ELSE LET counts == OwnedCounts[n]
             W1 == [W EXCEPT !.producers[p].pc = "prices",
                             !.producers[p].totalGames = n,
                             !.producers[p].playedCount = counts.playedCount,
                             !.producers[p].unplayedCount = counts.unplayedCount,
                             !.producers[p].totalPlaytime = counts.totalPlaytime,
                             !.producers[p].chunks = 1 .. NumChunks(n)]
         IN  IF NumChunks(n) = 0 THEN GamesFinish(W1, p) ELSE W1

\* lines 160-184: the callbacks of the chunks in `okChunks` ran their loops, the
\* others went to the catch; chunks still to add: `todo`
RECURSIVE PriceChunks(_, _, _)
PriceChunks(todo, n, acc) ==
    IF todo = {} THEN acc
    ELSE LET c == CHOOSE x \in todo : \A y \in todo : x <= y
             add == ChunkPrices[n][c]
         IN  PriceChunks(todo \ {c}, n,
                 [nPrices |-> acc.nPrices + add.nPrices,
                  totalInitial |-> acc.totalInitial + add.totalInitial,
                  totalFinal |-> acc.totalFinal + add.totalFinal])

\* Variant with Promise.all in place of Promise.allSettled and of the callbacks'
\* catch: one rejected chunk rejects the whole aggregation
GamesPricedAllOrNothing(W, p, okChunks) ==
    LET pr == W.producers[p]
        acc == PriceChunks(okChunks, pr.totalGames, PriceLoop(1, 0))
    IN  IF okChunks # pr.chunks THEN Fail(W, p, "private games", "prices")
        ELSE GamesFinish([W EXCEPT !.producers[p].chunks = {},
                                   !.producers[p].nPrices = acc.nPrices,
                                   !.producers[p].totalInitial = acc.totalInitial,
                                   !.producers[p].totalFinal = acc.totalFinal], p)

\* lines 159-204: Promise.allSettled over the chunk requests settles
GamesPriced(W, p, okChunks) ==
    LET pr == W.producers[p]
        acc == PriceChunks(okChunks, pr.totalGames, PriceLoop(1, 0))
    IN  GamesFinish([W EXCEPT !.producers[p].chunks = {},
                              !.producers[p].nPrices = acc.nPrices,
                              !.producers[p].totalInitial = acc.totalInitial,
                              !.producers[p].totalFinal = acc.totalFinal], p)

-----------------------------------------------------------------------------
(* getCachedImage and createFullCanvas (the drawing steps and their order) *)

\* The five static images, in the order createFullCanvas requests them
StaticImages ==
    <<"public/canvas/steeeam-canvas.png", "public/canvas/loc-icon.png",
      "public/canvas/seen-icon.png", "public/canvas/join-icon.png",
      "public/canvas/game-stats-icon.png">>
AvatarStep == Len(StaticImages) + 1

\* What each awaited image is drawn as
DrawnAs(i) == IF i = AvatarStep THEN "avatar" ELSE StaticImages[i]

\* The render of one request: the image cache and the request record.  strictText:
\* whether the canvas library rejects a text argument that is not a string (its
\* code is not part of this repository, so both are possible)
RenderState(r, strictText) ==
    [now |-> now, imageCache |-> imageCache, staleUses |-> staleUses,
     req |-> requests[r], strictText |-> strictText]

ImagePath(R, i) == IF i = AvatarStep THEN R.req.userData.avatar ELSE StaticImages[i]
ImageTTL(i) == IF i = AvatarStep THEN AVATAR_CACHE_TTL ELSE CACHE_TTL

\* line 225 of getCachedImage
ImageCacheHit(R, i) ==
    /\ Has(R.imageCache, ImgKey(ImagePath(R, i)))
    /\ isCacheValid(R, R.imageCache[ImgKey(ImagePath(R, i))].timestamp, ImageTTL(i))

Draw(R, what) == [R EXCEPT !.req.drawn = @ \cup {what}]

\* handler, lines 293-295
Respond500(R) ==
    [R EXCEPT !.req.pc = "sent", !.req.status = 500,
              !.req.contentType = "application/json",
              !.req.body = "Failed to generate image"]

\* createFullCanvas lines 592-600, then handler lines 291-292
Respond200(R) ==
    [Draw(R, "border") EXCEPT !.req.pc = "sent", !.req.status = 200,
                              !.req.contentType = "image/png", !.req.body = "png"]

\* line 365, ctx.measureText(username): userData.personaName of an error marker
\* is undefined, which a strict library rejects by throwing
TextArgThrows(R) == R.strictText /\ ~("personaName" \in DOMAIN R.req.userData)

\* lines 437-557: the statistics panel
StatsPanel(R) ==
    LET gameData == R.req.gameData
    IN  IF ~IsError(gameData)
        THEN LET progressIsNaN == gameData.totals.totalGames = 0
                 R1 == Draw(R, "statBlocks")
             IN  IF progressIsNaN THEN R1
                 ELSE Draw(Draw(R1, "counterLine"), "progressBar")
        ELSE Draw(R, "privateMsg")

\* line 588
DrawsAvatar(userData) == "avatar" \in DOMAIN userData /\ ~IsError(userData)

RECURSIVE RenderFrom(_, _), AfterImage(_, _)

\* The synchronous code between the draw of image i and the next getCachedImage
AfterImage(R, i) ==
    CASE i = 1 -> IF TextArgThrows(R) THEN Respond500(R)
                  ELSE RenderFrom(Draw(Draw(R, "username"), "steamId"), 2)
      [] i = 2 -> RenderFrom(Draw(R, "location"), 3)
      [] i = 3 -> RenderFrom(Draw(R, "lastSeen"), 4)
      [] i = 4 -> RenderFrom(Draw(R, "createdAt"), 5)
      [] i = 5 -> LET R1 == StatsPanel(Draw(R, "statsHeader"))
                  IN  IF DrawsAvatar(R.req.userData) THEN RenderFrom(R1, AvatarStep)
                      ELSE Respond200(R1)
      [] OTHER -> Respond200(R)

\* getCachedImage for image i is called: a valid cached image is drawn and the
\* render goes on; otherwise loadImage is started and the render suspends
RenderFrom(R, i) ==
    IF ImageCacheHit(R, i)
    THEN LET at == R.imageCache[ImgKey(ImagePath(R, i))].timestamp
             R1 == IF R.now - at < ImageTTL(i) THEN R
                   ELSE [R EXCEPT !.staleUses = @ \cup {"image"}]
         IN  AfterImage(Draw(R1, DrawnAs(i)), i)
    ELSE [R EXCEPT !.req.pc = "load", !.req.img = i]

\* A failed load of image i: getCachedImage rethrows (line 235); only the avatar's
\* caller catches it (line 582)
LoadFailed(R, i) ==
    LET R1 == [R EXCEPT !.req.failedLoads = @ \cup {DrawnAs(i)}]
    IN  IF i = AvatarStep THEN AfterImage(R1, i) ELSE Respond500(R1)

\* loadImage for image i settled
ImageLoaded(R, i, ok) ==
    IF ok
    THEN LET R1 == [R EXCEPT !.imageCache =
                        Set(@, ImgKey(ImagePath(R, i)),
                            [image |-> ImagePath(R, i), timestamp |-> R.now])]
         IN  AfterImage(Draw(R1, DrawnAs(i)), i)
    ELSE LoadFailed(R, i)

-----------------------------------------------------------------------------
(* handler *)

\* sawUser, sawGames: history of the fetch that was in flight for the request's key
\* when it called (0: none); failedLoads: history of the images that failed to load
NewRequest(uid, cc, user, game, sawUser, sawGames) ==
    [uid |-> uid, cc |-> cc, pc |-> "await", user |-> user, game |-> game,
     userData |-> NoData, gameData |-> NoData, img |-> 0, drawn |-> {},
     status |-> 0, contentType |-> "", body |-> "",
     sawUser |-> sawUser, sawGames |-> sawGames, failedLoads |-> {}]

InFlight(W, key) ==
    {p \in DOMAIN W.producers : W.producers[p].key = key /\ W.producers[p].pc # "done"}
InFlightOrNone(W, key) ==
    IF InFlight(W, key) = {} THEN 0 ELSE CHOOSE p \in InFlight(W, key) : TRUE

Settled(h) == IF h.promise = 0 THEN TRUE ELSE producers[h.promise].pc = "done"
ValueOf(h) == IF h.promise = 0 THEN h.value ELSE producers[h.promise].result

SetWorld(W) ==
    /\ cache' = W.cache
    /\ written' = W.written
    /\ pendingRequests' = W.pendingRequests
    /\ producers' = W.producers
    /\ resolveCalls' = W.resolveCalls
    /\ crossReads' = W.crossReads
    /\ staleUses' = W.staleUses

pureVars == <<themeIn, themeOut, nameIn, nameOut, barIn, barOut>>

\* lines 239-269: a request arrives, d milliseconds after the previous turn (time
\* is counted from the first request); both fetchers run to their first suspension
HandlerStart(uid, cc, d) ==
    /\ d > 0 => (ticks < MaxTicks /\ requests # <<>>)
    /\ now' = now + d
    /\ ticks' = IF d > 0 THEN ticks + 1 ELSE ticks
    /\ LET u == getUserData([World EXCEPT !.now = now + d], uid)
           g == getGameData(u.W, uid, cc)
       IN  /\ SetWorld(g.W)
           /\ requests' = Append(requests,
                  NewRequest(uid, cc, u.ret, g.ret, InFlightOrNone(World, UserKey(uid)),
                             InFlightOrNone(World, GamesKey(uid, cc))))
    /\ fontsLoaded' = TRUE
    /\ UNCHANGED <<apiKeySet, imageCache, pureVars>>

\* resolveVanityUrl settles for the producer p of getUserData
UserResolveReturn(p, ok) ==
    /\ producers[p].kind = "user" /\ producers[p].pc = "resolve"
    /\ SetWorld(UserResolved(World, p, ok))
    /\ UNCHANGED <<now, ticks, apiKeySet, fontsLoaded, imageCache, requests, pureVars>>

\* Promise.allSettled([getUserSummary, steamID64ToFullInfo]) settles
UserSummaryReturn(p, userOk, sidrOk) ==
    /\ producers[p].kind = "user" /\ producers[p].pc = "summary"
    /\ userOk => IsString(producers[p].steamId)
    /\ sidrOk => IsString(producers[p].steamId)
    /\ SetWorld(UserSettled([World EXCEPT !.producers[p].userOk = userOk,
                                          !.producers[p].sidrOk = sidrOk],
                            p, userOk, sidrOk))
    /\ UNCHANGED <<now, ticks, apiKeySet, fontsLoaded, imageCache, requests, pureVars>>

\* resolveVanityUrl settles for the producer p of getGameData
GamesResolveReturn(p, ok) ==
    /\ producers[p].kind = "games" /\ producers[p].pc = "resolve"
    /\ SetWorld(GamesResolved(World, p, ok))
    /\ UNCHANGED <<now, ticks, apiKeySet, fontsLoaded, imageCache, requests, pureVars>>

\* sapi.getUserOwnedGames settles
GamesOwnedReturn(p, ok, n) ==
    /\ producers[p].kind = "games" /\ producers[p].pc = "owned"
    /\ ok => IsString(producers[p].steamId)
    /\ ~ok => n = 0
    /\ SetWorld(GamesOwned(World, p, ok, n))
    /\ UNCHANGED <<now, ticks, apiKeySet, fontsLoaded, imageCache, requests, pureVars>>

\* Every axios.get of the chunks settled (a timeout is a rejection): the ones in
\* okChunks fulfilled.  The callbacks only add to variables local to this call,
\* so the order in which they ran is not part of the state.
GamesPricesReturn(p, okChunks) ==
    /\ producers[p].kind = "games" /\ producers[p].pc = "prices"
    /\ okChunks \subseteq producers[p].chunks
    /\ SetWorld(GamesPriced([World EXCEPT !.producers[p].fetched = okChunks,
                                          !.producers[p].priced = TRUE],
                            p, okChunks))
    /\ UNCHANGED <<now, ticks, apiKeySet, fontsLoaded, imageCache, requests, pureVars>>

SetRender(r, R) ==
    /\ imageCache' = R.imageCache
    /\ staleUses' = R.staleUses
    /\ requests' = [requests EXCEPT ![r] = R.req]

\* line 266 resumes: both results are in; createFullCanvas runs to its first load
HandlerJoin(r, strictText) ==
    /\ requests[r].pc = "await"
    /\ Settled(requests[r].user) /\ Settled(requests[r].game)
    /\ LET R == [RenderState(r, strictText) EXCEPT !.req.userData = ValueOf(requests[r].user),
                                       !.req.gameData = ValueOf(requests[r].game),
                                       !.req.pc = "render"]
       IN  SetRender(r, RenderFrom(R, 1))
    /\ UNCHANGED <<now, ticks, apiKeySet, fontsLoaded, cache, pendingRequests, producers,
                   written, resolveCalls, crossReads, pureVars>>

\* loadImage settles for the render of request r
ImageReturn(r, ok, strictText) ==
    /\ requests[r].pc = "load"
    /\ SetRender(r, ImageLoaded(RenderState(r, strictText), requests[r].img, ok))
    /\ UNCHANGED <<now, ticks, apiKeySet, fontsLoaded, cache, pendingRequests, producers,
                   written, resolveCalls, crossReads, pureVars>>

EmptyMap == [k \in {} |-> NoData]

ServerInit ==
    /\ now = 0
    /\ ticks = 0
    /\ apiKeySet \in BOOLEAN
    /\ fontsLoaded = FALSE
    /\ cache = EmptyMap
    /\ pendingRequests = EmptyMap
    /\ imageCache = EmptyMap
    /\ producers = <<>>
    /\ requests = <<>>
    /\ written = EmptyMap
    /\ resolveCalls = [u \in Uids |-> 0]
    /\ crossReads = {}
    /\ staleUses = {}

PureIdle ==
    /\ themeIn = NoData /\ themeOut = NoData
    /\ nameIn = <<>> /\ nameOut = <<>>
    /\ barIn = NoData /\ barOut = NoData

Init == ServerInit /\ PureIdle

\* The producers' steps: every settled upstream call resumes its caller
FetchStep ==
    \/ \E p \in DOMAIN producers, ok \in BOOLEAN : UserResolveReturn(p, ok)
    \/ \E p \in DOMAIN producers, userOk \in BOOLEAN, sidrOk \in BOOLEAN :
           UserSummaryReturn(p, userOk, sidrOk)
    \/ \E p \in DOMAIN producers, ok \in BOOLEAN : GamesResolveReturn(p, ok)
    \/ \E p \in DOMAIN producers, ok \in BOOLEAN, n \in LibSizes : GamesOwnedReturn(p, ok, n)
    \/ \E p \in DOMAIN producers, okChunks \in SUBSET (1 .. NumChunks(maxGameIdsPerCall + ExtraGames)) :
           GamesPricesReturn(p, okChunks)

\* The endpoint, one request end to end
Next ==
    \/ \E q \in Queries, d \in Elapsed :
           Len(requests) < MaxRequests /\ HandlerStart(q[1], q[2], d)
    \/ FetchStep
    \/ \E r \in DOMAIN requests, strictText \in BOOLEAN : HandlerJoin(r, strictText)
    \/ \E r \in DOMAIN requests, ok \in BOOLEAN, strictText \in BOOLEAN :
           ImageReturn(r, ok, strictText)

Spec == Init /\ [][Next]_vars

\* The two fetchers under concurrent callers: the handler up to its await on line
\* 266, where each caller holds the cached values or the shared promises.  What a
\* caller receives is ValueOf its handle once that is Settled.
NextFetch ==
    \/ \E q \in Queries, d \in Elapsed :
           Len(requests) < MaxCalls /\ HandlerStart(q[1], q[2], d)
    \/ FetchStep

SpecFetch == Init /\ [][NextFetch]_vars

\* The two fetchers in a deployment without STEAM_API_KEY: every fetch ends at
\* new SteamAPI(...) (lines 57, 122), before or after its resolveVanityUrl await
NoKeyInit == ServerInit /\ apiKeySet = FALSE /\ PureIdle

NextNoKey ==
    \/ \E q \in Queries, d \in Elapsed :
           Len(requests) < MaxNoKeyCalls /\ HandlerStart(q[1], q[2], d)
    \/ \E p \in DOMAIN producers, ok \in BOOLEAN : UserResolveReturn(p, ok)
    \/ \E p \in DOMAIN producers, ok \in BOOLEAN : GamesResolveReturn(p, ok)

SpecNoKey == NoKeyInit /\ [][NextNoKey]_vars

-----------------------------------------------------------------------------
(* createFullCanvas, lines 299-340: the colours the drawing uses *)

ColorNames ==
    {"bg_color", "title_color", "sub_title_color", "text_color", "username_color",
     "id_color", "cp_color", "ip_color", "div_color", "border_color",
     "progbar_bg", "progbar_color"}

\* JavaScript undefined, where a colour string is expected
NoColor == "undefined"

\* lines 302-314: the default of each parameter
DefaultColor(c) ==
    CASE c = "bg_color" -> "0b0b0b"
      [] c = "title_color" -> "fff"
      [] c = "sub_title_color" -> "adadad"
      [] c = "text_color" -> "fff"
      [] c = "username_color" -> "fff"
      [] c = "id_color" -> "adadad"
      [] c = "cp_color" -> "f87171"
      [] c = "ip_color" -> "4ade80"
      [] c = "div_color" -> "ffffff30"
      [] c = "border_color" -> "ffffff30"
      [] c = "progbar_bg" -> "313131"
      [] OTHER -> "006fee"

\* lines 320-329
DarkTheme ==
    [bg_color |-> "0b0b0b", title_color |-> "fff", sub_title_color |-> "adadad",
     text_color |-> "fff", username_color |-> "fff", id_color |-> "adadad",
     div_color |-> "ffffff30", border_color |-> "ffffff30", progbar_bg |-> "ffffff30",
     progbar_color |-> "006fee"]

\* lines 331-340
LightTheme ==
    [bg_color |-> "fff", title_color |-> "000", sub_title_color |-> "000",
     text_color |-> "000", username_color |-> "000", id_color |-> "adadad",
     div_color |-> "00000030", border_color |-> "00000030", progbar_bg |-> "00000050",
     progbar_color |-> "60a5fa"]

\* Variant in which a colour the caller supplied is kept under a theme
SuppliedColorWins(c, given, theme) ==
    IF given # NoColor THEN given
    ELSE IF theme = "dark" /\ c \in DOMAIN DarkTheme THEN DarkTheme[c]
    ELSE IF theme = "light" /\ c \in DOMAIN LightTheme THEN LightTheme[c]
    ELSE DefaultColor(c)

\* One parameter after the default and the theme assignments
ThemedColor(c, given, theme) ==
    LET withDefault == IF given = NoColor THEN DefaultColor(c) ELSE given
        afterDark == IF theme = "dark" /\ c \in DOMAIN DarkTheme THEN DarkTheme[c]
                     ELSE withDefault
    IN  IF theme = "light" /\ c \in DOMAIN LightTheme THEN LightTheme[c] ELSE afterDark

\* The fillStyle / strokeStyle strings the drawing steps use: `#${color}`
DrawColors(args, theme) == [c \in ColorNames |-> "#" \o ThemedColor(c, args[c], theme)]

\* The colour arguments a request may carry: none, one of them, or all of them
CustomColor == "123456"
ColorArgs ==
    {[c \in ColorNames |-> IF c \in given THEN CustomColor ELSE NoColor] :
        given \in {{}} \cup {{c} : c \in ColorNames} \cup {ColorNames}}
Themes == {NoColor, "dark", "light", "neon"}

ServerIdle == ServerInit /\ apiKeySet = TRUE

\* Two requests with the same theme, each with its own colour arguments
ThemeInit ==
    /\ ServerIdle
    /\ themeIn \in [theme : Themes, a : ColorArgs, b : ColorArgs]
    /\ themeOut = NoData
    /\ nameIn = <<>> /\ nameOut = <<>>
    /\ barIn = NoData /\ barOut = NoData

ApplyTheme ==
    /\ themeOut = NoData
    /\ themeOut' = [a |-> DrawColors(themeIn.a, themeIn.theme),
                    b |-> DrawColors(themeIn.b, themeIn.theme)]
    /\ UNCHANGED <<serverVars, themeIn, nameIn, nameOut, barIn, barOut>>

SpecTheme == ThemeInit /\ [][ApplyTheme]_vars

-----------------------------------------------------------------------------
(* createFullCanvas, lines 361-380: the user name, truncated to fit *)

\* Text is a sequence of characters; ctx.measureText(text).width at '700 20px
\* Geist' is the sum of the characters' advance widths
NameChars == {"i", "W"}
CharWidth(ch) == CASE ch = "W" -> 19 [] OTHER -> 5

RECURSIVE measureText(_)
measureText(text) ==
    IF text = <<>> THEN 0 ELSE CharWidth(Head(text)) + measureText(Tail(text))

Ellipsis == <<".", ".", ".">>
MaxNameWidth == 180

\* username.slice(0, i)
Slice(text, i) == SubSeq(text, 1, i)

\* line 371: the test that ends the loop
TooWide(text) == measureText(text) > MaxNameWidth

\* Variant of the loop that records i before it tests the width
RECURSIVE TruncateLoopEager(_, _, _)
TruncateLoopEager(username, i, truncatedLength) ==
    IF i >= Len(username) THEN truncatedLength
    ELSE IF TooWide(Slice(username, i) \o Ellipsis) THEN i
    ELSE TruncateLoopEager(username, i + 1, i)

\* lines 368-375: the loop from index i on, truncatedLength so far
RECURSIVE TruncateLoop(_, _, _)
TruncateLoop(username, i, truncatedLength) ==
    IF i >= Len(username) THEN truncatedLength
    ELSE IF TooWide(Slice(username, i) \o Ellipsis) THEN truncatedLength
    ELSE TruncateLoop(username, i + 1, i)

\* lines 364-380: the text given to ctx.fillText
DrawnName(username) ==
    IF measureText(username) > MaxNameWidth
    THEN Slice(username, TruncateLoop(username, 0, 0)) \o Ellipsis
    ELSE username

Names == UNION {[1 .. n -> NameChars] : n \in 1 .. MaxNameLen}

NameInit ==
    /\ ServerIdle
    /\ nameIn \in Names
    /\ nameOut = <<>>
    /\ themeIn = NoData /\ themeOut = NoData
    /\ barIn = NoData /\ barOut = NoData

DrawName ==
    /\ nameOut = <<>>
    /\ nameOut' = DrawnName(nameIn)
    /\ UNCHANGED <<serverVars, themeIn, themeOut, nameIn, barIn, barOut>>

SpecName == NameInit /\ [][DrawName]_vars

-----------------------------------------------------------------------------
(* JavaScript numbers: IEEE 754 binary64, round to nearest, ties to even *)

\* A natural number of any size: its digits in base 2^15, least significant first
LimbBits == 15
Base == 2 ^ LimbBits
RECURSIVE ToBig(_)
ToBig(n) == IF n = 0 THEN <<>> ELSE <<n % Base>> \o ToBig(n \div Base)
RECURSIVE ToInt(_)
ToInt(a) == IF a = <<>> THEN 0 ELSE Head(a) + Base * ToInt(Tail(a))

\* a * c + carry, for 0 <= c, carry < Base
RECURSIVE MulSmall(_, _, _)
MulSmall(a, c, carry) ==
    IF a = <<>> THEN ToBig(carry)
    ELSE LET v == Head(a) * c + carry
         IN  IF Tail(a) = <<>> /\ v = 0 THEN <<>>
             ELSE <<v % Base>> \o MulSmall(Tail(a), c, v \div Base)

\* quotient and remainder of a by d, for 0 < d < Base
RECURSIVE DivSmall(_, _)
DivSmall(a, d) ==
    IF a = <<>> THEN [q |-> <<>>, r |-> 0]
    ELSE LET hi == DivSmall(Tail(a), d)
             cur == hi.r * Base + Head(a)
         IN  [q |-> IF hi.q = <<>> /\ cur \div d = 0 THEN <<>>
                    ELSE <<cur \div d>> \o hi.q,
              r |-> cur % d]

RECURSIVE BitsOf(_)
BitsOf(n) == IF n = 0 THEN 0 ELSE 1 + BitsOf(n \div 2)
BitLen(a) == IF a = <<>> THEN 0 ELSE (Len(a) - 1) * LimbBits + BitsOf(a[Len(a)])

RECURSIVE ShiftLeft(_, _)
ShiftLeft(a, k) ==
    IF k = 0 THEN a
    ELSE IF k >= 14 THEN ShiftLeft(MulSmall(a, 2 ^ 14, 0), k - 14)
    ELSE MulSmall(a, 2 ^ k, 0)

\* floor(a / 2^k)
RECURSIVE ShiftRight(_, _)
ShiftRight(a, k) ==
    IF k = 0 \/ a = <<>> THEN a
    ELSE IF k >= 14 THEN ShiftRight(DivSmall(a, 2 ^ 14).q, k - 14)
    ELSE DivSmall(a, 2 ^ k).q

\* A finite number >= 0 is man * 2^exp with a 53-bit significand man (or zero)
Precision == 53
Zero == [man |-> <<>>, exp |-> 0]
NaN == [nan |-> TRUE]
isNaN(x) == "nan" \in DOMAIN x

\* The double nearest to n * 2^e / d (n a natural of any size, 0 < d < Base)
RoundToDouble(n, d, e) ==
    IF n = <<>> THEN Zero
    ELSE LET want == Precision + 2 + BitsOf(d) - BitLen(n)
             s == IF want > 0 THEN want ELSE 0
             exact == DivSmall(ShiftLeft(n, s), d)
             k == BitLen(exact.q) - Precision
             cut == DivSmall(exact.q, 2 ^ k)
             half == 2 ^ (k - 1)
             odd == Head(cut.q) % 2 = 1
             up == \/ cut.r > half
                   \/ cut.r = half /\ (exact.r # 0 \/ odd)
             m == IF up THEN MulSmall(cut.q, 1, 1) ELSE cut.q
         IN  IF BitLen(m) > Precision
             THEN [man |-> ShiftRight(m, 1), exp |-> e + k - s + 1]
             ELSE [man |-> m, exp |-> e + k - s]

\* a / b for integers a, b >= 0 held as numbers
NumberDiv(a, b) ==
    IF b = 0 THEN NaN    \* 0 / 0; a / 0 with a > 0 is Infinity, which no library yields
    ELSE RoundToDouble(ToBig(a), b, 0)
\* x * c and x / c for a number x and an integer constant 0 < c < Base
NumberTimes(x, c) == IF isNaN(x) THEN NaN ELSE RoundToDouble(MulSmall(x.man, c, 0), 1, x.exp)
NumberOver(x, c) == IF isNaN(x) THEN NaN ELSE RoundToDouble(x.man, c, x.exp)
\* Math.floor of a finite number below 2^31
MathFloor(x) ==
    IF x.exp >= 0 THEN ToInt(ShiftLeft(x.man, x.exp))
    ELSE ToInt(ShiftRight(x.man, 0 - x.exp))

-----------------------------------------------------------------------------
(* createFullCanvas, lines 491-552: the played/total line and the progress bar *)

barwidth == 220

\* lines 548: (parseInt(playedCount) / parseInt(gameCount)) * 100
Progress(playedCount, gameCount) == NumberTimes(NumberDiv(playedCount, gameCount), 100)

\* lines 512-519: what createRoundedProgressBar draws
createRoundedProgressBar(progress) ==
    IF isNaN(progress) THEN [background |-> FALSE, fill |-> FALSE, barWidth |-> 0]
    ELSE [background |-> TRUE, fill |-> TRUE,
          barWidth |-> MathFloor(NumberTimes(NumberOver(progress, 100), barwidth))]

\* lines 492-552
ProgressPanel(playedCount, gameCount) ==
    LET progress == Progress(playedCount, gameCount)
    IN  [counterLine |-> ~isNaN(progress), bar |-> createRoundedProgressBar(progress)]

\* The libraries: playedCount counts some of the totalGames items
BarInputs == {<<p, t>> \in (0 .. MaxGames) \X (0 .. MaxGames) : p <= t}

BarInit ==
    /\ ServerIdle
    /\ barIn \in {[playedCount |-> x[1], totalGames |-> x[2]] : x \in BarInputs}
    /\ barOut = NoData
    /\ themeIn = NoData /\ themeOut = NoData
    /\ nameIn = <<>> /\ nameOut = <<>>

DrawBar ==
    /\ barOut = NoData
    /\ barOut' = ProgressPanel(barIn.playedCount, barIn.totalGames)
    /\ UNCHANGED <<serverVars, themeIn, themeOut, nameIn, nameOut, barIn>>

SpecBar == BarInit /\ [][DrawBar]_vars

-----------------------------------------------------------------------------
(* The claims *)

ProducerIds == DOMAIN producers
RequestIds == DOMAIN requests
Done(p) == producers[p].pc = "done"

\* The last producer for p's key that returned a value, if p is it
IsLatestSuccess(p) ==
    /\ Done(p) /\ ~IsError(producers[p].result)
    /\ \A q \in ProducerIds :
          (q > p /\ producers[q].key = producers[p].key /\ Done(q))
              => IsError(producers[q].result)

\* C1: per cache key, never two fetches in flight; a call made while a fetch for
\* its key is in flight starts none and gets that fetch's promise, hence its result
C1_OneFetchPerKey ==
    /\ \A p, q \in ProducerIds :
          (producers[p].key = producers[q].key /\ ~Done(p) /\ ~Done(q)) => p = q
    /\ \A r \in RequestIds :
          /\ requests[r].sawUser # 0 =>
                /\ requests[r].user.promise = requests[r].sawUser
                /\ Settled(requests[r].user) =>
                      ValueOf(requests[r].user) = producers[requests[r].sawUser].result
          /\ requests[r].sawGames # 0 =>
                /\ requests[r].game.promise = requests[r].sawGames
                /\ Settled(requests[r].game) =>
                      ValueOf(requests[r].game) = producers[requests[r].sawGames].result

\* Two callers shared both fetches, which succeeded, and both hold the results
C1_Witness ==
    \E r \in RequestIds :
        /\ requests[r].sawUser # 0 /\ requests[r].sawGames # 0
        /\ Settled(requests[r].user) /\ Settled(requests[r].game)
        /\ ~IsError(ValueOf(requests[r].user)) /\ ~IsError(ValueOf(requests[r].game))
        /\ Len(producers) = 2

\* C2: while all calls fall within the resolved-ID TTL, resolveVanityUrl(uid) is
\* invoked at most once per uid
C2_ResolveAtMostOnce ==
    now < STEAMID_CACHE_TTL => \A uid \in Uids : resolveCalls[uid] <= 1

\* C3: no cached value is used at or past the TTL of its kind
C3_NoStaleUse == staleUses = {}

\* C4: no request reads a cache entry written for another input or namespace
C4_NoCrossRead == crossReads = {}

\* The request's fetches whose identifier resolution failed / whose primary
\* summary fetch failed / whose owned-games fetch failed
FailedAt(h, cause) == h.promise # 0 /\ producers[h.promise].cause = cause
Sent(r) == requests[r].pc = "sent"

\* C5: a request whose identifier resolution or primary summary fetch failed is
\* answered 500 with the error body, never 200 / PNG
C5_FailureAnswers500 ==
    \A r \in RequestIds :
        (Sent(r) /\ (\/ FailedAt(requests[r].user, "resolve")
                     \/ FailedAt(requests[r].game, "resolve")
                     \/ FailedAt(requests[r].user, "summary")))
            => /\ requests[r].status = 500
               /\ requests[r].body = "Failed to generate image"

\* C6: owned-games fetch failed, profile fetched: the marker is a value, the answer
\* is 200 image/png and only the "Private Games List" branch is drawn
C6_RestrictedRenders ==
    \A r \in RequestIds :
        (Sent(r) /\ FailedAt(requests[r].game, "owned") /\ ~IsError(requests[r].userData))
            => /\ requests[r].gameData = [error |-> "private games"]
               /\ requests[r].status = 200
               /\ requests[r].contentType = "image/png"
               /\ "privateMsg" \in requests[r].drawn
               /\ requests[r].drawn \cap {"statBlocks", "counterLine", "progressBar"} = {}

\* What the chunks in okChunks add, counted from the price table (not by the loop)
ChunkOfId(i) == (i - 1) \div maxGameIdsPerCall + 1
PricedIds(n, okChunks) ==
    {i \in 1 .. n : /\ ChunkOfId(i) \in okChunks
                    /\ "initial" \in DOMAIN PriceOverview(i)
                    /\ PriceOverview(i).initial > 0}
RECURSIVE SumOver(_, _)
SumOver(vals, count) ==
    IF vals = {} THEN 0
    ELSE LET v == CHOOSE x \in vals : TRUE
         IN  v * Cardinality(count[v]) + SumOver(vals \ {v}, count)
ExpectedTotals ==
    [n \in LibSizes |-> [okChunks \in SUBSET (1 .. NumChunks(n)) |->
        LET ids == PricedIds(n, okChunks)
            initials == {PriceOverview(i).initial : i \in ids}
            finals == {PriceOverview(i).final : i \in ids}
        IN  [nPrices |-> Cardinality(ids),
             totalInitial |-> SumOver(initials,
                 [v \in initials |-> {i \in ids : PriceOverview(i).initial = v}]),
             totalFinal |-> SumOver(finals,
                 [v \in finals |-> {i \in ids : PriceOverview(i).final = v}])]]]

Cached(p) ==
    /\ Has(cache, producers[p].key)
    /\ cache[producers[p].key].data = producers[p].result

\* C7: a failed secondary lookup still yields and caches a profile with
\* onlineState null and location 'Unknown'; whatever chunks fail, getGameData
\* yields and caches totals computed from exactly the chunks that succeeded
C7_PartialFailuresRecovered ==
    \A p \in ProducerIds :
        /\ (producers[p].kind = "user" /\ Done(p)
            /\ producers[p].userOk /\ ~producers[p].sidrOk)
              => /\ ~IsError(producers[p].result)
                 /\ producers[p].result.onlineState = Null
                 /\ producers[p].result.location = "Unknown"
                 /\ IsLatestSuccess(p) => Cached(p)
        /\ (producers[p].kind = "games" /\ Done(p) /\ producers[p].priced)
              => LET exp == ExpectedTotals[producers[p].totalGames][producers[p].fetched]
                     got == producers[p].result
                 IN  /\ ~IsError(got)
                     /\ got.totals.totalInitialFormatted = FormatUSD(exp.totalInitial)
                     /\ got.totals.totalFinalFormatted = FormatUSD(exp.totalFinal)
                     /\ got.totals.totalGames = producers[p].totalGames
                     /\ IsLatestSuccess(p) => Cached(p)

\* A profile built after the secondary lookup failed, and totals built after one
\* of two chunks failed
C7_Witness ==
    /\ \E p \in ProducerIds :
          /\ producers[p].kind = "user" /\ Done(p)
          /\ producers[p].userOk /\ ~producers[p].sidrOk
          /\ Cached(p)
    /\ \E p \in ProducerIds :
          /\ producers[p].kind = "games" /\ Done(p) /\ producers[p].priced
          /\ producers[p].fetched = {2}
          /\ producers[p].result.totals.totalInitialFormatted # FormatUSD(0)
          /\ Cached(p)

\* C8: a failed image load only skips that image's draw step; the request still
\* ends 200 image/png with everything else drawn
C8_ImageFailureSkipsDraw ==
    \A r \in RequestIds :
        (Sent(r) /\ requests[r].failedLoads # {} /\ ~IsError(requests[r].userData))
            => /\ requests[r].status = 200
               /\ requests[r].contentType = "image/png"
               /\ requests[r].drawn \cap requests[r].failedLoads = {}
               /\ {"username", "statsHeader", "border"} \subseteq requests[r].drawn

Themed == themeOut # NoData /\ themeIn.theme \in {"dark", "light"}

\* C9 as stated: under theme dark or light every colour used for drawing is the
\* same for any two requests, whatever colours they supplied
C9_ThemeOverridesAll ==
    Themed => \A c \in ColorNames : themeOut.a[c] = themeOut.b[c]

\* C9 as amended: every colour but cp_color and ip_color is the theme's value,
\* whatever the requests supplied; cp_color and ip_color stay as supplied/defaulted
C9_ThemeOverridesThemed ==
    Themed =>
        /\ \A c \in ColorNames \ {"cp_color", "ip_color"} :
              /\ themeOut.a[c] = themeOut.b[c]
              /\ themeOut.a[c] \in {"#" \o DarkTheme[c], "#" \o LightTheme[c]}
        /\ \A c \in {"cp_color", "ip_color"} :
              /\ themeIn.a[c] # NoColor => themeOut.a[c] = "#" \o themeIn.a[c]
              /\ themeIn.a[c] = NoColor => themeOut.a[c] = "#" \o DefaultColor(c)

\* Two light-theme requests that differ in every colour argument
C9_Witness ==
    /\ themeOut # NoData /\ themeIn.theme = "light"
    /\ \A c \in ColorNames : themeIn.a[c] = CustomColor /\ themeIn.b[c] = NoColor
    /\ themeOut.a["bg_color"] = "#fff" /\ themeOut.b["bg_color"] = "#fff"
    /\ themeOut.a["cp_color"] # themeOut.b["cp_color"]

IsPrefixOf(t, text) == Len(t) <= Len(text) /\ t = SubSeq(text, 1, Len(t))
NameDrawn == nameOut # <<>>

\* C10: a name wider than 180 px is drawn as its longest prefix whose form with the
\* ellipsis measures at most 180 px; a name that fits is drawn unchanged
C10_LongestFittingPrefix ==
    NameDrawn =>
        IF measureText(nameIn) > MaxNameWidth
        THEN \E k \in 0 .. Len(nameIn) :
                /\ nameOut = SubSeq(nameIn, 1, k) \o Ellipsis
                /\ measureText(nameOut) <= MaxNameWidth
                /\ \A j \in (k + 1) .. Len(nameIn) :
                      measureText(SubSeq(nameIn, 1, j) \o Ellipsis) > MaxNameWidth
        ELSE nameOut = nameIn

\* A name of eleven wide characters, cut to eight and the ellipsis
C10_Witness ==
    /\ NameDrawn
    /\ measureText(nameIn) > MaxNameWidth
    /\ Len(nameOut) = 8 + Len(Ellipsis)
    /\ IsPrefixOf(SubSeq(nameOut, 1, 8), nameIn)

\* C11: with totalGames > 0 the filled width is floor(220 * playedCount /
\* totalGames); with totalGames = 0 neither the counter line nor the bar is drawn
C11_BarWidthIsFloor ==
    barOut # NoData =>
        IF barIn.totalGames > 0
        THEN /\ barOut.bar.fill
             /\ barOut.bar.barWidth = (barwidth * barIn.playedCount) \div barIn.totalGames
        ELSE ~barOut.counterLine /\ ~barOut.bar.background /\ ~barOut.bar.fill

\* Producer p ends in this step with a value that is not an error marker
CompletesWithValue(p) ==
    /\ IF p \in DOMAIN producers THEN producers[p].pc # "done" ELSE TRUE
    /\ producers'[p].pc = "done"
    /\ ~IsError(producers'[p].result)

NoStaleMarker == \A key \in DOMAIN pendingRequests : InFlight(World, key) # {}

StampedOnSuccess ==
    \A p \in DOMAIN producers' :
        CompletesWithValue(p) =>
            /\ Has(cache', producers'[p].key)
            /\ cache'[producers'[p].key] = Entry(producers'[p].result, now')

CompletesWithError(p) ==
    /\ IF p \in DOMAIN producers THEN producers[p].pc # "done" ELSE TRUE
    /\ producers'[p].pc = "done"
    /\ IsError(producers'[p].result)

FailedWritesNothing ==
    \A p \in DOMAIN producers' :
        CompletesWithError(p) =>
            LET key == producers'[p].key
            IN  /\ Has(cache', key) <=> Has(cache, key)
                /\ Has(cache, key) => cache'[key] = cache[key]

\* What a call returns is a cached value that is no error marker, or the promise of
\* a producer it started or found running: never one that had ended before the call
NoStaleReturn ==
    \A r \in DOMAIN requests' \ DOMAIN requests :
        \A h \in {requests'[r].user, requests'[r].game} :
            IF h.promise = 0 THEN ~IsError(h.value)
            ELSE h.promise \in DOMAIN producers => producers[h.promise].pc # "done"

====
